---------------------------- MODULE Spec2Model ----------------------------
(***************************************************************************)
(* Model of src/stream_handler.rs (Weylus): the per-connection video       *)
(* stream handler ScreenStreamHandler::process, its rate limit, its        *)
(* encoder lifecycle and the frames it and the encoder callback put on     *)
(* the shared websocket writer.                                            *)
(*                                                                         *)
(* Time is counted in units of 1/UnitsPerMs millisecond so that the        *)
(* truncation done by Duration::as_millis is visible.  A tick is one text  *)
(* message; it is identified by its ordinal among the received messages.   *)
(* An encoder is identified by the ordinal of the tick that built it.      *)
(***************************************************************************)
EXTENDS Integers, Sequences, FiniteSets, TLC

\* ---- bounds ------------------------------------------------------------
UnitsPerMs    == 2      \* clock resolution: units per millisecond
MaxIntervalMs == 2      \* update_interval ranges over 0..MaxIntervalMs ms
MaxTime       == 6      \* the clock stops advancing here
MaxMsgs       == 3      \* messages delivered to process
MaxToggles    == 3      \* runs of the toggle button's callback
MaxPtrMsgs    == 3      \* text frames delivered on the pointer channel
FaultyIntervalMs == 1   \* update_interval (ms) of the connection whose sends fail

\* the control panel's preset for "Limit screen updates (milliseconds)"
DefaultLimitMs == 0

\* capture sizes (width, height) the ScreenCapture may report
Sizes == { <<100, 100>>, <<200, 150>> }

NoSize == <<0, 0>>

VARIABLES
    clock,            \* Instant::now()
    update_interval,  \* ScreenStreamHandler.update_interval (units)
    last_update,      \* ScreenStreamHandler.last_update
    video_encoder,    \* ScreenStreamHandler.video_encoder
    pc,               \* position of the connection thread inside process
    lock,             \* holder of the Mutex around the writer
    cbpc,             \* position of the encoder's emission callback
    cbEnc,            \* encoder whose chunk the callback is sending
    wire,             \* messages handed to send_message, in order
    msgs,             \* number of messages delivered to process so far
    cur,              \* what the current (latest) text tick did
    prev,             \* what the text tick before it did
    stats,            \* totals over the connection
    faults,           \* errors the transport can answer a send with
    io,               \* outcome and log entries of the latest send_message
    device,           \* PointerStreamHandler.device: events given to send_event
    precv,            \* text frames received on the pointer channel
    pwarns,           \* warnings logged by PointerStreamHandler::process
    is_server_running,      \* gui.rs: the toggle callback's is_server_running
    is_server_running_hide, \* gui.rs: the Hide handler's is_server_running
    but_label,        \* label of the toggle button
    inputs,           \* text of the bind address, port and interval fields
    sender_gui2ws,    \* Option<mpsc::Sender<Gui2WsMessage>>
    sender_gui2web,   \* Option<mpsc_tokio::Sender<Gui2WebMessage>>
    ws,               \* the websocket service and its gui2ws channel
    web,              \* the web service and its gui2web channel
    panel,            \* log of the panel: callback runs, errors, Shutdowns
    exited            \* std::process::exit was called

\* the video connection, its transport, and the pointer connection
svars == << clock, update_interval, last_update, video_encoder, pc, lock,
            cbpc, cbEnc, wire, msgs, cur, prev, stats >>
tvars == << faults, io >>
pvars == << device, precv, pwarns >>
\* the control panel and the two services it starts
gvars == << is_server_running, is_server_running_hide, but_label, inputs,
            sender_gui2ws, sender_gui2web, ws, web, panel, exited >>

vars == << svars, tvars, pvars, gvars >>

\* ---- data --------------------------------------------------------------
\* Option<Box<VideoEncoder>>: None, or an encoder built by tick id for size
None == [id |-> 0, size |-> NoSize, pending |-> 0]

is_none(enc) == enc.id = 0

\* the (identity, size) of the bound encoder, without its queued output
Binding(enc) == << enc.id, enc.size >>

\* Message::text(format!("@{}", k)), Message::text("new"), Message::binary
AtFrame(k, tick)  == [kind |-> "at",  val |-> k,  tick |-> tick]
NewFrame(tick)    == [kind |-> "new", val |-> 0,  tick |-> tick]
BinFrame(encId)   == [kind |-> "bin", val |-> encId, tick |-> 0]

NoTick == [seq |-> 0, now |-> 0, lu0 |-> 0, limited |-> FALSE, k |-> 0,
           captured |-> FALSE, size |-> NoSize, psize |-> NoSize,
           built |-> "no", encoded |-> FALSE, encFor |-> NoSize,
           done |-> TRUE, end |-> 0]

\* ---- pure parts of process --------------------------------------------
\* Duration::as_millis: whole milliseconds, fraction dropped
as_millis(d) == d \div UnitsPerMs

\* Duration::from_millis
from_millis(ms) == ms * UnitsPerMs

\* variant of line 71: the comparison made inclusive (<=)
RateLimited_Inclusive(interval, ui) == interval <= ui

\* variant of line 71: the limit lifted one clock unit early
RateLimited_Early(interval, ui) == interval + 1 < ui

\* line 71: if interval < self.update_interval
RateLimited(interval, ui) == interval < ui

\* lines 72-75: the number printed after "@"
Remaining(ui, interval) == as_millis(ui - interval)

\* VideoEncoder::check_size(width, height)
check_size(enc, size) == enc.size[1] = size[1] /\ enc.size[2] = size[2]

\* variant of lines 84-90: only a missing encoder is restarted
NeedsRestart_OnlyIfNone(enc, size) == is_none(enc)

\* variant of lines 84-90: the negation of check_size left out
NeedsRestart_MissingNot(enc, size) == is_none(enc) \/ check_size(enc, size)

\* lines 84-90: encoder not set up, or set up for the wrong size
NeedsRestart(enc, size) == is_none(enc) \/ ~check_size(enc, size)

\* ---- the transport ----------------------------------------------------
\* Err values of send_message: an IoError of kind BrokenPipe, an IoError of
\* another kind, and a WebSocketError that is not an IoError
SendErrors == { "BrokenPipe", "IoOther", "Protocol" }

\* what send_message can return on this connection
SendResults == {"ok"} \cup faults

NoSend == [res |-> "none", warn |-> 0, trace |-> 0]

\* lines 76-78 and 91-93: if let Err(err) = ... { warn!(...) }
TickSendLog(r) ==
    [res |-> r, warn |-> IF r = "ok" THEN 0 ELSE 1, trace |-> 0]

\* lines 96-109: the callback's match on the error
CallbackSendLog(r) ==
    [res |-> r,
     warn |-> IF r \in {"IoOther", "Protocol"} THEN 1 ELSE 0,
     trace |-> IF r = "BrokenPipe" THEN 1 ELSE 0]

\* ---- the pointer channel ----------------------------------------------
\* events a client can report
Events == { [event_type |-> "pointerdown", pointer_type |-> "pen"],
            [event_type |-> "pointermove", pointer_type |-> "touch"] }

NoEvent == [event_type |-> "", pointer_type |-> ""]

\* text payloads: raw is the text, json says whether it is well-formed
\* JSON, tag is the single key of the object (if any) and ev the event
\* its value describes (NoEvent when the fields are missing)
PointerTexts ==
    { [raw |-> "{",        json |-> FALSE, tag |-> "", ev |-> NoEvent],
      [raw |-> "not json", json |-> FALSE, tag |-> "", ev |-> NoEvent],
      [raw |-> "{}",       json |-> TRUE,  tag |-> "", ev |-> NoEvent],
      [raw |-> "{\"PointerEvent\":{}}", json |-> TRUE,
       tag |-> "PointerEvent", ev |-> NoEvent] }
    \cup { [raw |-> "{\"KeyEvent\":{..}}", json |-> TRUE,
            tag |-> "KeyEvent", ev |-> e] : e \in Events }
    \cup { [raw |-> "{\"PointerEvent\":{..}}", json |-> TRUE,
            tag |-> "PointerEvent", ev |-> e] : e \in Events }

\* serde_json::from_str::<NetMessage>
from_str(s) ==
    IF s.json /\ s.tag = "PointerEvent" /\ s.ev # NoEvent
    THEN [ok |-> TRUE,  event |-> s.ev]
    ELSE [ok |-> FALSE, event |-> NoEvent]

\* ---- the control panel (gui.rs) ------------------------------------------
\* capacity of the gui2web channel
Gui2WebCapacity == 100

\* texts a field can hold: the text, whether it is an IP address literal,
\* whether it is a non-empty run of decimal digits, and the number it spells
FieldText(raw, ip, digits, n) ==
    [raw |-> raw, ip |-> ip, digits |-> digits, n |-> n]

BindAddrTexts ==
    { FieldText("0.0.0.0", TRUE, FALSE, 0),
      FieldText("localhost", FALSE, FALSE, 0) }

PortTexts ==
    { FieldText("1701", FALSE, TRUE, 1701),
      FieldText("70000", FALSE, TRUE, 70000),
      FieldText("", FALSE, FALSE, 0) }

WsPointerPortTexts ==
    { FieldText("9001", FALSE, TRUE, 9001),
      FieldText("", FALSE, FALSE, 0) }

WsVideoPortTexts ==
    { FieldText("9002", FALSE, TRUE, 9002),
      FieldText("70000", FALSE, TRUE, 70000) }

LimitTexts ==
    { FieldText("0", FALSE, TRUE, DefaultLimitMs),
      FieldText("1", FALSE, TRUE, 1),
      FieldText("-1", FALSE, FALSE, -1) }

\* str::parse::<IpAddr>, ::<u16>, ::<u64>: TRUE iff the result is Ok
\* (every number of the sets above is below 2^64)
parse_IpAddr(t) == t.ip
parse_u16(t) == t.digits /\ t.n < 2^16
parse_u64(t) == t.digits

\* lines 352-356: the five parses of the start path, in order
ParsesOk(inp) ==
    /\ parse_IpAddr(inp.bind_addr)
    /\ parse_u16(inp.port)
    /\ parse_u16(inp.ws_pointer_port)
    /\ parse_u16(inp.ws_video_port)
    /\ parse_u64(inp.limit_screen_updates)

\* a service that was never started
NoService == [state |-> "off", queued |-> 0, update_interval |-> 0]

\* lines 47-82, 213, 326-329, 529: the panel before the first event
Panel ==
    /\ is_server_running = FALSE
    /\ is_server_running_hide = FALSE
    /\ but_label = "Start"
    /\ inputs = [bind_addr |-> FieldText("0.0.0.0", TRUE, FALSE, 0),
                 port |-> FieldText("1701", FALSE, TRUE, 1701),
                 ws_pointer_port |-> FieldText("9001", FALSE, TRUE, 9001),
                 ws_video_port |-> FieldText("9002", FALSE, TRUE, 9002),
                 limit_screen_updates |->
                     FieldText("0", FALSE, TRUE, DefaultLimitMs)]
    /\ sender_gui2ws = "None"
    /\ sender_gui2web = "None"
    /\ ws = NoService
    /\ web = NoService
    /\ panel = [calls |-> 0, errors |-> 0, web_sent |-> 0, ws_sent |-> 0,
                last |-> "none"]
    /\ exited = FALSE

\* ---- initial state: ScreenStreamHandler::new, PointerStreamHandler::new
Handlers ==
    /\ clock = 0
    /\ update_interval \in { from_millis(n) : n \in 0..MaxIntervalMs }
    /\ last_update = 0
    /\ video_encoder = None
    /\ pc = "idle"
    /\ lock = "free"
    /\ cbpc = "idle"
    /\ cbEnc = 0
    /\ wire = << >>
    /\ msgs = 0
    /\ cur = NoTick
    /\ prev = NoTick
    /\ stats = [capture |-> 0, built |-> 0, fail |-> 0, encode |-> 0,
                changes |-> 0, lastSize |-> NoSize]
    /\ io = NoSend
    /\ device = << >>
    /\ precv = << >>
    /\ pwarns = 0

\* a connection whose sends all succeed
Init == Handlers /\ Panel /\ faults = {}

\* a connection on which any send may fail, with any error
InitFaulty ==
    /\ Handlers
    /\ Panel
    /\ update_interval = from_millis(FaultyIntervalMs)
    /\ faults = SendErrors

\* ---- the clock ---------------------------------------------------------
\* Time is read at line 69 and at line 119 only; it passes between two
\* messages and while a cycle (capture, encode) runs.
Advance ==
    /\ \/ pc = "idle" /\ msgs < MaxMsgs
       \/ pc = "encoding"
    /\ clock < MaxTime
    /\ clock' = clock + 1
    /\ UNCHANGED << update_interval, last_update, video_encoder, pc, lock,
                    cbpc, cbEnc, wire, msgs, cur, prev, stats >>
    /\ UNCHANGED << tvars, pvars, gvars >>

\* ---- process: connection thread ---------------------------------------
\* variant of line 121: any frame counts as activity and restarts the timer
ProcessOther_Stamps ==
    /\ pc = "idle"
    /\ msgs < MaxMsgs
    /\ msgs' = msgs + 1
    /\ last_update' = clock
    /\ UNCHANGED << clock, update_interval, video_encoder, pc,
                    lock, cbpc, cbEnc, wire, cur, prev, stats >>
    /\ UNCHANGED << tvars, pvars, gvars >>

\* line 121: any message that is not Text
ProcessOther ==
    /\ pc = "idle"
    /\ msgs < MaxMsgs
    /\ msgs' = msgs + 1
    /\ UNCHANGED << clock, update_interval, last_update, video_encoder, pc,
                    lock, cbpc, cbEnc, wire, cur, prev, stats >>
    /\ UNCHANGED << tvars, pvars, gvars >>

\* lines 68-75: a text tick that is rate limited
ProcessTextLimited ==
    /\ pc = "idle"
    /\ msgs < MaxMsgs
    /\ LET now == clock
           interval == now - last_update
       IN /\ RateLimited(interval, update_interval)
          /\ msgs' = msgs + 1
          /\ prev' = cur
          /\ cur' = [NoTick EXCEPT !.seq = msgs + 1, !.now = now,
                        !.lu0 = last_update, !.limited = TRUE,
                        !.k = Remaining(update_interval, interval),
                        !.done = FALSE]
          /\ pc' = "send_at"
    /\ UNCHANGED << clock, update_interval, last_update, video_encoder,
                    lock, cbpc, cbEnc, wire, stats >>
    /\ UNCHANGED << tvars, pvars, gvars >>

\* lines 68-90: a text tick that captures
ProcessTextCapture ==
    /\ pc = "idle"
    /\ msgs < MaxMsgs
    /\ LET now == clock
           interval == now - last_update
       IN /\ ~RateLimited(interval, update_interval)
          /\ \E size \in Sizes :
               /\ msgs' = msgs + 1
               /\ prev' = cur
               /\ cur' = [NoTick EXCEPT !.seq = msgs + 1, !.now = now,
                             !.lu0 = last_update, !.captured = TRUE,
                             !.size = size,
                             !.psize = stats.lastSize,
                             !.done = FALSE]
               /\ stats' = [stats EXCEPT !.capture = @ + 1,
                              !.lastSize = size,
                              !.changes = IF stats.lastSize # NoSize
                                             /\ stats.lastSize # size
                                          THEN @ + 1 ELSE @]
               /\ pc' = IF NeedsRestart(video_encoder, size)
                        THEN "send_new" ELSE "encode"
    /\ UNCHANGED << clock, update_interval, last_update, video_encoder,
                    lock, cbpc, cbEnc, wire >>
    /\ UNCHANGED << tvars, pvars, gvars >>

\* line 76: sender.lock()
SendAtLock ==
    /\ pc = "send_at"
    /\ lock = "free"
    /\ lock' = "tick"
    /\ pc' = "write_at"
    /\ UNCHANGED << clock, update_interval, last_update, video_encoder,
                    cbpc, cbEnc, wire, msgs, cur, prev, stats >>
    /\ UNCHANGED << tvars, pvars, gvars >>

\* variant of lines 76-79: the rate-limited path also restarts the timer
SendAtWrite_ResetsTimer ==
    /\ pc = "write_at"
    /\ \E r \in SendResults : io' = TickSendLog(r)
    /\ wire' = Append(wire, AtFrame(cur.k, cur.seq))
    /\ lock' = "free"
    /\ last_update' = clock
    /\ cur' = [cur EXCEPT !.done = TRUE, !.end = clock]
    /\ pc' = "idle"
    /\ UNCHANGED << clock, update_interval, video_encoder,
                    cbpc, cbEnc, msgs, prev, stats >>
    /\ UNCHANGED << faults, pvars, gvars >>

\* lines 76-79: send_message(&msg), guard dropped, return
SendAtWrite ==
    /\ pc = "write_at"
    /\ \E r \in SendResults : io' = TickSendLog(r)
    /\ wire' = Append(wire, AtFrame(cur.k, cur.seq))
    /\ lock' = "free"
    /\ cur' = [cur EXCEPT !.done = TRUE, !.end = clock]
    /\ pc' = "idle"
    /\ UNCHANGED << clock, update_interval, last_update, video_encoder,
                    cbpc, cbEnc, msgs, prev, stats >>
    /\ UNCHANGED << faults, pvars, gvars >>

\* line 91: sender.lock()
SendNewLock ==
    /\ pc = "send_new"
    /\ lock = "free"
    /\ lock' = "tick"
    /\ pc' = "write_new"
    /\ UNCHANGED << clock, update_interval, last_update, video_encoder,
                    cbpc, cbEnc, wire, msgs, cur, prev, stats >>
    /\ UNCHANGED << tvars, pvars, gvars >>

\* variant of lines 91-93: the "new" signal is left out
SendNewWrite_Omitted ==
    /\ pc = "write_new"
    /\ lock' = "free"
    /\ pc' = "construct"
    /\ UNCHANGED << clock, update_interval, last_update, video_encoder,
                    cbpc, cbEnc, wire, msgs, cur, prev, stats >>
    /\ UNCHANGED << tvars, pvars, gvars >>

\* variant of lines 91-93: the guard is bound to a name and lives on to
\* the end of the block, across VideoEncoder::new and encode
SendNewWrite_KeepsLock ==
    /\ pc = "write_new"
    /\ \E r \in SendResults : io' = TickSendLog(r)
    /\ wire' = Append(wire, NewFrame(cur.seq))
    /\ lock' = "tick"
    /\ pc' = "construct"
    /\ UNCHANGED << clock, update_interval, last_update, video_encoder,
                    cbpc, cbEnc, msgs, cur, prev, stats >>
    /\ UNCHANGED << faults, pvars, gvars >>

\* variant of lines 91-93: a failed "new" send ends the tick
SendNewWrite_AbortsOnError ==
    /\ pc = "write_new"
    /\ \E r \in SendResults :
         /\ io' = TickSendLog(r)
         /\ IF r = "ok"
            THEN pc' = "construct" /\ cur' = cur
            ELSE /\ pc' = "idle"
                 /\ cur' = [cur EXCEPT !.done = TRUE, !.end = clock]
    /\ wire' = Append(wire, NewFrame(cur.seq))
    /\ lock' = "free"
    /\ UNCHANGED << clock, update_interval, last_update, video_encoder,
                    cbpc, cbEnc, msgs, prev, stats >>
    /\ UNCHANGED << faults, pvars, gvars >>

\* lines 91-93: send_message("new"), guard dropped
SendNewWrite ==
    /\ pc = "write_new"
    /\ \E r \in SendResults : io' = TickSendLog(r)
    /\ wire' = Append(wire, NewFrame(cur.seq))
    /\ lock' = "free"
    /\ pc' = "construct"
    /\ UNCHANGED << clock, update_interval, last_update, video_encoder,
                    cbpc, cbEnc, msgs, cur, prev, stats >>
    /\ UNCHANGED << faults, pvars, gvars >>

\* lines 94-110, 115: VideoEncoder::new succeeds; the old encoder is dropped
EncoderNewOk ==
    /\ pc = "construct"
    /\ video_encoder' = [id |-> cur.seq, size |-> cur.size, pending |-> 0]
    /\ cur' = [cur EXCEPT !.built = "ok"]
    /\ stats' = [stats EXCEPT !.built = @ + 1]
    /\ pc' = "encode"
    /\ UNCHANGED << clock, update_interval, last_update, lock, cbpc, cbEnc,
                    wire, msgs, prev >>
    /\ UNCHANGED << tvars, pvars, gvars >>

\* variant of lines 111-114: the failure path also sets last_update
EncoderNewErr_Stamps ==
    /\ pc = "construct"
    /\ cur' = [cur EXCEPT !.built = "fail", !.done = TRUE, !.end = clock]
    /\ stats' = [stats EXCEPT !.fail = @ + 1]
    /\ last_update' = clock
    /\ pc' = "idle"
    /\ UNCHANGED << clock, update_interval, video_encoder,
                    lock, cbpc, cbEnc, wire, msgs, prev >>
    /\ UNCHANGED << tvars, pvars, gvars >>

\* variant of lines 111-115: the result is stored whatever it is, so a
\* failure clears the binding (self.video_encoder = res.ok())
EncoderNewErr_DropsEncoder ==
    /\ pc = "construct"
    /\ cur' = [cur EXCEPT !.built = "fail", !.done = TRUE, !.end = clock]
    /\ stats' = [stats EXCEPT !.fail = @ + 1]
    /\ video_encoder' = None
    /\ pc' = "idle"
    /\ UNCHANGED << clock, update_interval, last_update,
                    lock, cbpc, cbEnc, wire, msgs, prev >>
    /\ UNCHANGED << tvars, pvars, gvars >>

\* lines 94-114: VideoEncoder::new fails; warn and return
EncoderNewErr ==
    /\ pc = "construct"
    /\ cur' = [cur EXCEPT !.built = "fail", !.done = TRUE, !.end = clock]
    /\ stats' = [stats EXCEPT !.fail = @ + 1]
    /\ pc' = "idle"
    /\ UNCHANGED << clock, update_interval, last_update, video_encoder,
                    lock, cbpc, cbEnc, wire, msgs, prev >>
    /\ UNCHANGED << tvars, pvars, gvars >>

\* lines 117-118: the bound encoder is handed the captured frame
\* (as_mut().unwrap() on None panics: the connection thread stops)
Encode ==
    /\ pc = "encode"
    /\ IF is_none(video_encoder)
       THEN /\ pc' = "panicked"
            /\ UNCHANGED << video_encoder, cur, stats >>
       ELSE /\ video_encoder' = [video_encoder EXCEPT !.pending = @ + 1]
            /\ cur' = [cur EXCEPT !.encoded = TRUE,
                                  !.encFor = video_encoder.size]
            /\ stats' = [stats EXCEPT !.encode = @ + 1]
            /\ pc' = "encoding"
    /\ UNCHANGED << clock, update_interval, last_update, lock, cbpc, cbEnc,
                    wire, msgs, prev >>
    /\ UNCHANGED << tvars, pvars, gvars >>

\* lines 118-119: encode returns; self.last_update = Instant::now()
EncodeReturn ==
    /\ pc = "encoding"
    /\ last_update' = clock
    /\ cur' = [cur EXCEPT !.done = TRUE, !.end = clock]
    /\ pc' = "idle"
    /\ UNCHANGED << clock, update_interval, video_encoder, lock, cbpc,
                    cbEnc, wire, msgs, prev, stats >>
    /\ UNCHANGED << tvars, pvars, gvars >>

\* ---- the encoder's emission callback (lines 94-110) --------------------
\* variant of line 96: the callback writes without waiting for the lock
CallbackLock_Unguarded ==
    /\ cbpc = "idle"
    /\ video_encoder.pending > 0
    /\ lock' = "cb"
    /\ cbpc' = "write"
    /\ cbEnc' = video_encoder.id
    /\ video_encoder' = [video_encoder EXCEPT !.pending = @ - 1]
    /\ UNCHANGED << clock, update_interval, last_update, pc, wire, msgs,
                    cur, prev, stats >>
    /\ UNCHANGED << tvars, pvars, gvars >>

\* line 96: sender.lock(), for one encoded chunk of the bound encoder
CallbackLock ==
    /\ cbpc = "idle"
    /\ video_encoder.pending > 0
    /\ lock = "free"
    /\ lock' = "cb"
    /\ cbpc' = "write"
    /\ cbEnc' = video_encoder.id
    /\ video_encoder' = [video_encoder EXCEPT !.pending = @ - 1]
    /\ UNCHANGED << clock, update_interval, last_update, pc, wire, msgs,
                    cur, prev, stats >>
    /\ UNCHANGED << tvars, pvars, gvars >>

\* lines 95-109: send_message(Message::binary(data)), guard dropped
CallbackSend ==
    /\ cbpc = "write"
    /\ \E r \in SendResults : io' = CallbackSendLog(r)
    /\ wire' = Append(wire, BinFrame(cbEnc))
    /\ lock' = "free"
    /\ cbpc' = "idle"
    /\ cbEnc' = 0
    /\ UNCHANGED << clock, update_interval, last_update, video_encoder, pc,
                    msgs, cur, prev, stats >>
    /\ UNCHANGED << faults, pvars, gvars >>

\* ---- PointerStreamHandler::process -----------------------------------
\* variant of lines 35-40: a frame that fails to decode still reaches the
\* device, as a default event
PointerProcessText_ForwardsOnErr ==
    /\ Len(precv) < MaxPtrMsgs
    /\ \E s \in PointerTexts :
         LET message == from_str(s)
         IN /\ precv' = Append(precv, s)
            /\ device' = Append(device, message.event)
            /\ pwarns' = IF message.ok THEN pwarns ELSE pwarns + 1
    /\ UNCHANGED << svars, tvars, gvars >>

\* variant of lines 36-38: touch events are filtered out before dispatch
PointerProcessText_FiltersTouch ==
    /\ Len(precv) < MaxPtrMsgs
    /\ \E s \in PointerTexts :
         LET message == from_str(s)
         IN /\ precv' = Append(precv, s)
            /\ IF message.ok
               THEN /\ device' = IF message.event.pointer_type = "touch"
                                 THEN device
                                 ELSE Append(device, message.event)
                    /\ pwarns' = pwarns
               ELSE /\ device' = device
                    /\ pwarns' = pwarns + 1
    /\ UNCHANGED << svars, tvars, gvars >>

\* lines 32-41: a text frame is decoded; Ok goes to send_event, Err is
\* logged with warn! and dropped
PointerProcessText ==
    /\ Len(precv) < MaxPtrMsgs
    /\ \E s \in PointerTexts :
         LET message == from_str(s)
         IN /\ precv' = Append(precv, s)
            /\ IF message.ok
               THEN /\ device' = Append(device, message.event)
                    /\ pwarns' = pwarns
               ELSE /\ device' = device
                    /\ pwarns' = pwarns + 1
    /\ UNCHANGED << svars, tvars, gvars >>

\* line 42: _ => () for Binary, Close, Ping and Pong alike
PointerProcessOther ==
    UNCHANGED vars

Next ==
    \/ PointerProcessOther
    \/ Advance
    \/ ProcessOther
    \/ ProcessTextLimited
    \/ ProcessTextCapture
    \/ SendAtLock
    \/ SendAtWrite
    \/ SendNewLock
    \/ SendNewWrite
    \/ EncoderNewOk
    \/ EncoderNewErr
    \/ Encode
    \/ EncodeReturn
    \/ CallbackLock
    \/ CallbackSend

Spec == Init /\ [][Next]_vars

\* the video connection over a transport whose sends can fail
FaultySpec == InitFaulty /\ [][Next]_vars

\* the pointer connection
PointerNext ==
    \/ PointerProcessText
    \/ PointerProcessOther

PointerSpec == Init /\ [][PointerNext]_vars

\* ---- the control panel: the toggle button's callback --------------------
\* one more run of the callback, ending as `last` says; to_web and to_ws
\* count the Shutdown messages handed to try_send and send
Logged(last, err, to_web, to_ws) ==
    [panel EXCEPT !.calls = @ + 1, !.errors = @ + err,
                  !.web_sent = @ + to_web, !.ws_sent = @ + to_ws,
                  !.last = last]

\* variant of lines 352-360: the update interval is parsed only after
\* the websocket service was started
StartPath_ParsesLate ==
    IF ParsesOk(inputs)
    THEN /\ sender_gui2ws' = "Some"
         /\ ws' = [state |-> "running", queued |-> 0,
                   update_interval |->
                       from_millis(inputs.limit_screen_updates.n)]
         /\ sender_gui2web' = "Some"
         /\ web' = [state |-> "running", queued |-> 0, update_interval |-> 0]
         /\ but_label' = "Stop"
         /\ is_server_running' = TRUE
         /\ panel' = Logged("started", 0, 0, 0)
    ELSE IF ParsesOk([inputs EXCEPT
                        !.limit_screen_updates = FieldText("0", FALSE, TRUE, 0)])
    THEN /\ sender_gui2ws' = "Some"
         /\ ws' = [state |-> "running", queued |-> 0, update_interval |-> 0]
         /\ panel' = Logged("parse_err", 1, 0, 0)
         /\ UNCHANGED << sender_gui2web, web, but_label, is_server_running >>
    ELSE /\ panel' = Logged("parse_err", 1, 0, 0)
         /\ UNCHANGED << sender_gui2ws, ws, sender_gui2web, web, but_label,
                         is_server_running >>

\* lines 346-509 and 522: the start path
StartPath ==
    IF ParsesOk(inputs)
    THEN /\ sender_gui2ws' = "Some"
         /\ ws' = [state |-> "running", queued |-> 0,
                   update_interval |->
                       from_millis(inputs.limit_screen_updates.n)]
         /\ sender_gui2web' = "Some"
         /\ web' = [state |-> "running", queued |-> 0, update_interval |-> 0]
         /\ but_label' = "Stop"
         /\ is_server_running' = TRUE
         /\ panel' = Logged("started", 0, 0, 0)
    ELSE /\ panel' = Logged("parse_err", 1, 0, 0)
         /\ UNCHANGED << sender_gui2ws, ws, sender_gui2web, web, but_label,
                         is_server_running >>

\* mpsc_tokio::Sender::try_send on the gui2web channel
try_send ==
    IF web.state # "running" THEN "Closed"
    ELSE IF web.queued >= Gui2WebCapacity THEN "Full"
    ELSE "ok"

\* mpsc::Sender::send on the gui2ws channel
send == IF ws.state # "running" THEN "Disconnected" ELSE "ok"

\* lines 510-522: the stop path
StopPath ==
    IF sender_gui2web = "Some" /\ try_send # "ok"
    THEN /\ panel' = Logged("web_err", 1, 1, 0)
         /\ UNCHANGED << sender_gui2ws, ws, sender_gui2web, web, but_label,
                         is_server_running >>
    ELSE LET to_web == IF sender_gui2web = "Some" THEN 1 ELSE 0
         IN /\ web' = [web EXCEPT !.queued = @ + to_web]
            /\ IF sender_gui2ws = "Some" /\ send # "ok"
               THEN /\ panel' = Logged("ws_err", 1, to_web, 1)
                    /\ UNCHANGED << ws, but_label, is_server_running >>
               ELSE LET to_ws == IF sender_gui2ws = "Some" THEN 1 ELSE 0
                    IN /\ ws' = [ws EXCEPT !.queued = @ + to_ws]
                       /\ but_label' = "Start"
                       /\ is_server_running' = FALSE
                       /\ panel' = Logged("stopped", 0, to_web, to_ws)
            /\ UNCHANGED << sender_gui2ws, sender_gui2web >>

\* lines 337-526: the callback of the toggle button; `borrowed` says
\* whether the button's RefCell is mutably borrowed when it runs
ToggleCallback(borrowed) ==
    IF borrowed
    THEN /\ panel' = Logged("borrow_err", 1, 0, 0)
         /\ UNCHANGED << sender_gui2ws, ws, sender_gui2web, web, but_label,
                         is_server_running >>
    ELSE IF ~is_server_running THEN StartPath ELSE StopPath

\* the user activates the toggle button: the toolkit runs its callback
ButtonClick ==
    /\ ~exited
    /\ panel.calls < MaxToggles
    /\ ToggleCallback(FALSE)
    /\ UNCHANGED << is_server_running_hide, inputs, exited >>
    /\ UNCHANGED << svars, tvars, pvars >>

\* lines 529-537: the window's handler for Event::Hide
HideWindow ==
    /\ ~exited
    /\ IF is_server_running_hide
       THEN ToggleCallback(TRUE)
       ELSE UNCHANGED << sender_gui2ws, ws, sender_gui2web, web, but_label,
                         is_server_running, panel >>
    /\ exited' = TRUE
    /\ UNCHANGED << is_server_running_hide, inputs >>
    /\ UNCHANGED << svars, tvars, pvars >>

\* the user types into one of the fields read by lines 352-356
EditField ==
    /\ ~exited
    /\ \/ \E t \in BindAddrTexts : inputs' = [inputs EXCEPT !.bind_addr = t]
       \/ \E t \in PortTexts : inputs' = [inputs EXCEPT !.port = t]
       \/ \E t \in WsPointerPortTexts :
             inputs' = [inputs EXCEPT !.ws_pointer_port = t]
       \/ \E t \in WsVideoPortTexts :
             inputs' = [inputs EXCEPT !.ws_video_port = t]
       \/ \E t \in LimitTexts :
             inputs' = [inputs EXCEPT !.limit_screen_updates = t]
    /\ inputs' # inputs
    /\ UNCHANGED << is_server_running, is_server_running_hide, but_label,
                    sender_gui2ws, sender_gui2web, ws, web, panel, exited >>
    /\ UNCHANGED << svars, tvars, pvars >>

\* lines 237-246: the web service ended on its own and said so with
\* Web2GuiMessage::Shutdown; its end of the gui2web channel is gone
Web2GuiShutdown ==
    /\ ~exited
    /\ web.state = "running"
    /\ web.queued = 0
    /\ web' = [web EXCEPT !.state = "stopped"]
    /\ UNCHANGED << is_server_running, is_server_running_hide, but_label,
                    inputs, sender_gui2ws, sender_gui2web, ws, panel, exited >>
    /\ UNCHANGED << svars, tvars, pvars >>

\* the web service takes Gui2WebMessage::Shutdown from its channel and ends
WebRecvShutdown ==
    /\ ~exited
    /\ web.state = "running"
    /\ web.queued > 0
    /\ web' = [web EXCEPT !.state = "stopped", !.queued = 0]
    /\ UNCHANGED << is_server_running, is_server_running_hide, but_label,
                    inputs, sender_gui2ws, sender_gui2web, ws, panel, exited >>
    /\ UNCHANGED << svars, tvars, pvars >>

\* the websocket service takes Gui2WsMessage::Shutdown and ends
WsRecvShutdown ==
    /\ ~exited
    /\ ws.state = "running"
    /\ ws.queued > 0
    /\ ws' = [ws EXCEPT !.state = "stopped", !.queued = 0]
    /\ UNCHANGED << is_server_running, is_server_running_hide, but_label,
                    inputs, sender_gui2ws, sender_gui2web, web, panel, exited >>
    /\ UNCHANGED << svars, tvars, pvars >>

GuiNext ==
    \/ ButtonClick
    \/ HideWindow
    \/ EditField
    \/ Web2GuiShutdown
    \/ WebRecvShutdown
    \/ WsRecvShutdown

GuiSpec == Init /\ [][GuiNext]_vars

TypeOK ==
    /\ clock \in 0..MaxTime
    /\ last_update \in 0..clock
    /\ msgs \in 0..MaxMsgs
    /\ lock \in {"free", "tick", "cb"}
    /\ cbpc \in {"idle", "write"}
    /\ pc \in {"idle", "send_at", "write_at", "send_new", "write_new",
               "construct", "encode", "encoding", "panicked"}

\* ---- observations on the wire ------------------------------------------
\* the frames the connection thread sent while processing tick n
FramesOfTick(w, n) == SelectSeq(w, LAMBDA f : f.tick = n)

NewSent(n) == \E i \in DOMAIN wire : wire[i] = NewFrame(n)

Count(kind) == Cardinality({ i \in DOMAIN wire : wire[i].kind = kind })

\* the step belongs to a rate-limited tick (it starts it or runs inside it)
InLimitedTick == cur'.limited /\ (cur'.seq # cur.seq \/ ~cur.done)

\* ---- C1 ----------------------------------------------------------------
\* C1: a text tick whose elapsed time since last_update is below
\* update_interval sends exactly one text frame "@<n>" and nothing else,
\* and performs no capture, no encoder construction and no encode; it
\* leaves last_update and the encoder binding unchanged.
C1_RateLimitedTick ==
    [][ /\ InLimitedTick =>
             /\ cur'.now - cur'.lu0 < update_interval
             /\ last_update' = last_update
             /\ Binding(video_encoder') = Binding(video_encoder)
             /\ stats' = stats
        /\ (cur.limited /\ ~cur.done /\ cur'.done) =>
             FramesOfTick(wire', cur.seq) = << AtFrame(cur.k, cur.seq) >>
      ]_vars

\* a rate-limited tick has completed while an encoder was bound and time
\* had passed since last_update
C1_Witness ==
    /\ cur.limited /\ cur.done
    /\ ~is_none(video_encoder)
    /\ cur.now > cur.lu0
    /\ stats.encode > 0

\* ---- C2 ----------------------------------------------------------------
\* C2: every backpressure frame "@k" carries 0 < k <= N, where N is
\* update_interval in milliseconds; k is never 0.
C2_AtPositive ==
    \A i \in DOMAIN wire :
        wire[i].kind = "at" =>
            0 < wire[i].val /\ wire[i].val <= as_millis(update_interval)

\* ---- C3 ----------------------------------------------------------------
\* C3: after a tick answered with "@k", the next text tick arriving at
\* least k milliseconds later is not rate limited.
C3_WaitSuffices ==
    (prev.limited /\ cur.seq > prev.seq
        /\ cur.now - prev.now >= from_millis(prev.k))
    => ~cur.limited

\* ---- C4 ----------------------------------------------------------------
\* C4 as stated: two consecutive text ticks whose arrival times are at
\* least update_interval apart: the second is never rate limited, however
\* long the previous cycle took.
C4_SpacedTicksCycle ==
    (prev.seq > 0 /\ cur.seq > prev.seq
        /\ cur.now - prev.now >= update_interval)
    => ~cur.limited

\* C4 (amended): a text tick that arrives at least update_interval after
\* the previous text tick finished (process returned) is never rate
\* limited and performs a capture.
C4_SpacedFromCompletion ==
    (prev.seq > 0 /\ cur.seq > prev.seq
        /\ cur.now - prev.end >= update_interval)
    => (~cur.limited /\ cur.captured)

\* the previous cycle took time, the interval is positive, and the tick
\* came exactly update_interval after that cycle finished
C4_Witness ==
    /\ update_interval > 0
    /\ prev.encoded /\ prev.end > prev.now
    /\ cur.seq > prev.seq
    /\ cur.now - prev.end = update_interval
    /\ cur.captured /\ cur.done

\* ---- C5 ----------------------------------------------------------------
\* C5: capture is invoked only in a tick where now - last_update >=
\* update_interval, and last_update is modified only by a tick that
\* executed the encode call; rate-limited ticks, non-text frames and ticks
\* aborted by an encoder construction failure never change it.
C5_CaptureAndStamp ==
    [][ /\ stats'.capture # stats.capture =>
             clock - last_update >= update_interval
        /\ last_update' # last_update =>
             (cur.encoded /\ ~cur.done /\ stats.encode > 0)
        /\ (msgs' # msgs /\ cur'.seq = cur.seq) =>
             last_update' = last_update
        /\ (cur'.built = "fail" \/ cur'.limited) =>
             last_update' = cur'.lu0
      ]_vars

\* a cycle has moved last_update, and a rate-limited tick and a failed
\* construction have happened since the connection started
C5_Witness ==
    /\ last_update > 0
    /\ stats.encode > 0
    /\ stats.fail > 0
    /\ Count("at") > 0
    /\ cur.done

\* ---- C6 ----------------------------------------------------------------
\* C6: whenever encode is invoked the bound encoder exists and was built
\* for exactly the (width, height) captured in the same tick.
C6_EncoderMatches ==
    /\ pc # "panicked"
    /\ cur.encoded => (cur.encFor # NoSize /\ cur.encFor = cur.size)

\* an encoder built by an earlier tick is reused after a size change
C6_Witness ==
    /\ cur.encoded /\ cur.built = "no"
    /\ stats.changes > 0
    /\ video_encoder.id < cur.seq

\* ---- C7 ----------------------------------------------------------------
\* C7: while encoder construction never fails, a cycle sends "new" and
\* constructs an encoder iff it is the first cycle or its captured size
\* differs from the previous cycle's; the numbers of "new" frames and of
\* constructions both equal one plus the number of size changes.
C7_NewIffSizeChange ==
    (stats.fail = 0 /\ cur.captured /\ cur.done) =>
        /\ NewSent(cur.seq) <=> (cur.psize = NoSize \/ cur.psize # cur.size)
        /\ cur.built = "ok" <=> (cur.psize = NoSize \/ cur.psize # cur.size)
        /\ Count("new") = 1 + stats.changes
        /\ stats.built = 1 + stats.changes

\* three cycles without failure: one repeats a size, one changes it
C7_Witness ==
    /\ stats.fail = 0 /\ cur.captured /\ cur.done
    /\ stats.capture = 3
    /\ stats.changes = 1
    /\ stats.built = 2

\* ---- C8 ----------------------------------------------------------------
\* C8: every "new" frame corresponds to an encoder (re)initialization that
\* occurred: the tick that sent it constructed and bound a new encoder.
C8_NewMeansFreshEncoder ==
    (cur.done /\ NewSent(cur.seq)) =>
        (cur.built = "ok" /\ video_encoder.id = cur.seq)

\* ---- C9 ----------------------------------------------------------------
\* C9 as stated: if encoder construction fails on a tick, last_update is
\* unchanged and no encode happens in that tick; the next text tick is not
\* rate limited and attempts capture and encoder construction again.
C9_RetryConstructs ==
    /\ (cur.built = "fail") => (last_update = cur.lu0 /\ ~cur.encoded)
    /\ (prev.built = "fail" /\ cur.seq > prev.seq /\ cur.done) =>
           (~cur.limited /\ cur.captured /\ cur.built # "no")

\* C9 (amended): if encoder construction fails on a tick, last_update is
\* unchanged and no encode happens in that tick; the next text tick is not
\* rate limited and captures again, and it attempts encoder construction
\* again unless the size it captures matches an encoder that was bound
\* before the failed tick (so always when the size is the same as in the
\* failed tick).
C9_RetryUnlessBoundMatches ==
    /\ (cur.built = "fail") => (last_update = cur.lu0 /\ ~cur.encoded)
    /\ (prev.built = "fail" /\ cur.seq > prev.seq /\ cur.done) =>
           /\ ~cur.limited /\ cur.captured
           /\ cur.built = "no" =>
                 /\ video_encoder.id > 0 /\ video_encoder.id < prev.seq
                 /\ video_encoder.size = cur.size
           /\ cur.size = prev.size => cur.built # "no"

\* a failed construction is followed, later in time and with a positive
\* interval, by a tick that constructs again
C9_Witness ==
    /\ update_interval > 0
    /\ prev.built = "fail" /\ cur.seq > prev.seq /\ cur.done
    /\ cur.now > prev.now
    /\ cur.built = "ok"

\* ---- C10 ---------------------------------------------------------------
\* C10: every binary frame that follows a "new" frame (up to the next
\* "new") was emitted by the encoder constructed in the tick that sent
\* that "new".
C10_BinaryBelongsToLastNew ==
    \A i, j \in DOMAIN wire :
        (/\ i < j
         /\ wire[i].kind = "new"
         /\ wire[j].kind = "bin"
         /\ \A m \in (i + 1)..(j - 1) : wire[m].kind # "new")
        => wire[j].val = wire[i].tick
\* ---- C11 ---------------------------------------------------------------
\* C11: in a cycle that (re)initializes the encoder, "new" is written
\* before any binary chunk of the newly constructed encoder: no binary
\* chunk of an encoder precedes that encoder's "new" frame in send order.
C11_NewBeforeBinary ==
    \A j \in DOMAIN wire :
        wire[j].kind = "bin" =>
            \E i \in 1..(j - 1) : wire[i] = NewFrame(wire[j].val)

\* a chunk of an encoder built by a re-initialization (not the first
\* encoder of the connection) has been sent
C11_Witness ==
    \E j \in DOMAIN wire :
        /\ wire[j].kind = "bin"
        /\ wire[j].val > 1
        /\ stats.built > 1

\* ---- C12 ---------------------------------------------------------------
\* the contexts that are inside send_message on the shared writer
WritesInProgress ==
    (IF pc \in {"write_at", "write_new"} THEN {"tick"} ELSE {})
        \cup (IF cbpc = "write" THEN {"cb"} ELSE {})

\* C12: every send ("@k", "new" or a binary chunk) acquires the writer
\* lock, performs exactly one message write and releases it; two writes
\* are never in progress on the writer at the same time.
C12_WriterSerialized ==
    /\ [](/\ Cardinality(WritesInProgress) <= 1
          /\ WritesInProgress = (IF lock = "free" THEN {} ELSE {lock}))
    /\ [][ /\ wire' # wire =>
                 /\ lock # "free" /\ lock' = "free"
                 /\ Len(wire') = Len(wire) + 1
                 /\ SubSeq(wire', 1, Len(wire)) = wire
                 /\ (wire'[Len(wire')].kind = "bin") <=> (lock = "cb")
           /\ (lock # "free" /\ lock' # lock) =>
                 (lock' = "free" /\ Len(wire') = Len(wire) + 1)
           /\ (lock = "free" /\ lock' # "free") => wire' = wire
         ]_vars

\* the callback holds the writer while the connection thread waits to
\* send a control frame
C12_Witness ==
    /\ lock = "cb" /\ cbpc = "write"
    /\ pc \in {"send_at", "send_new"}
\* ---- observations on the pointer channel -------------------------------
\* the latest text frame received
LastText(log) == log[Len(log)]

\* the events of the frames of log that decode, in arrival order
DecodedEvents(log) ==
    LET good == SelectSeq(log, LAMBDA s : from_str(s).ok)
    IN [i \in 1..Len(good) |-> from_str(good[i]).event]

\* ---- C13 ---------------------------------------------------------------
\* C13: a text frame on the pointer channel that does not decode as a
\* NetMessage never reaches send_event; process returns normally and keeps
\* processing: after any number of malformed frames a valid frame is
\* still dispatched.
C13_MalformedDropped ==
    [][ precv' # precv =>
          /\ ~from_str(LastText(precv')).ok =>
                (device' = device /\ pwarns' = pwarns + 1)
          /\ (from_str(LastText(precv')).ok /\ pwarns > 0) =>
                device' = Append(device, LastText(precv').ev)
      ]_vars

\* a valid frame was dispatched after two malformed ones
C13_Witness ==
    /\ pwarns = 2
    /\ Len(precv) = 3
    /\ from_str(precv[3]).ok
    /\ device = << precv[3].ev >>

\* ---- C14 ---------------------------------------------------------------
\* C14: every text frame that decodes as a PointerEvent is given to
\* send_event exactly once, unfiltered; the sequence of send_event calls
\* equals the subsequence of decoded events in arrival order.
C14_ForwardsAllInOrder ==
    device = DecodedEvents(precv)

\* two different events, one of them a touch event, were dispatched in
\* the order received, with a malformed frame among them
C14_Witness ==
    /\ Len(device) = 2
    /\ device[1] # device[2]
    /\ device[1].pointer_type = "touch"
    /\ pwarns = 1
\* ---- C15 ---------------------------------------------------------------
\* C15: for both handlers a non-text frame is a no-op: nothing is sent,
\* no capture, encoder or device call is made, and last_update and the
\* encoder binding are unchanged.  (A frame delivered to the screen
\* handler without starting a tick is a non-text frame; a step that
\* receives no text frame on the pointer channel leaves the device alone.)
C15_NonTextNoOp ==
    [][ /\ (msgs' # msgs /\ cur'.seq = cur.seq) =>
             /\ wire' = wire
             /\ io' = io
             /\ stats' = stats
             /\ last_update' = last_update
             /\ video_encoder' = video_encoder
             /\ pc' = pc /\ lock' = lock
             /\ device' = device
        /\ precv' = precv => (device' = device /\ pwarns' = pwarns)
      ]_vars

\* a non-text frame was the latest message while an encoder was bound and
\* time had passed since last_update
C15_Witness ==
    /\ msgs > cur.seq
    /\ cur.seq > 0 /\ cur.done
    /\ ~is_none(video_encoder)
    /\ clock > last_update
\* ---- C16 ---------------------------------------------------------------
\* C16: for every write on the shared writer ("@k", "new" or a binary
\* chunk) a failure with a broken-pipe cause logs no warning, and any
\* other failure logs exactly one warning.
C16_BrokenPipeSilent ==
    /\ io.res = "BrokenPipe" => io.warn = 0
    /\ io.res \in {"IoOther", "Protocol"} => io.warn = 1

\* ---- C17 ---------------------------------------------------------------
\* C17: a failed send changes nothing in what the handler does: the frame
\* was handed to the writer, the handler's state and its capture,
\* construction and encode calls are as after a successful send; a failed
\* "new" does not abort the cycle and a failed binary send leaves the
\* encoder bound.
C17_FailuresSwallowed ==
    [][ (wire' # wire /\ io'.res # "ok") =>
          /\ last_update' = last_update
          /\ Binding(video_encoder') = Binding(video_encoder)
          /\ stats' = stats
          /\ msgs' = msgs
          /\ pc = "write_at" =>
                (pc' = "idle" /\ wire' = Append(wire, AtFrame(cur.k, cur.seq)))
          /\ pc = "write_new" =>
                (pc' = "construct" /\ wire' = Append(wire, NewFrame(cur.seq)))
          /\ lock = "cb" =>
                /\ pc' = pc
                /\ video_encoder' = video_encoder
                /\ wire' = Append(wire, BinFrame(cbEnc))
      ]_vars

\* the "new" of the current tick failed to send and the tick went on to
\* encode; an earlier send had failed as well
C17_Witness ==
    /\ cur.encoded
    /\ wire[Len(wire)] = NewFrame(cur.seq)
    /\ io.res # "ok" /\ io.res # "none"
    /\ pc = "encoding"
    /\ video_encoder.id = cur.seq
\* ---- C18 ---------------------------------------------------------------
\* how far the connection thread is inside process
Rank(p) ==
    CASE p = "idle" -> 0
      [] p \in {"send_at", "send_new"} -> 1
      [] p \in {"write_at", "write_new"} -> 2
      [] p = "construct" -> 3
      [] p = "encode" -> 4
      [] p = "encoding" -> 5
      [] OTHER -> 6

\* C18: the tick path never holds the writer lock while it calls encoder
\* construction or encode; whoever holds the lock is at its write and can
\* release it, so a tick waiting for the lock, and a callback running
\* inside or beside encode, can always proceed: no deadlock state is
\* reachable and a tick only moves forward until process returns.
C18_NoLockAcrossEncoder ==
    /\ [](/\ pc \in {"construct", "encode", "encoding"} => lock # "tick"
          /\ lock = "tick" => pc \in {"write_at", "write_new"}
          /\ lock = "cb" => cbpc = "write"
          /\ pc \in {"send_at", "send_new"} =>
                (lock = "free" \/ (lock = "cb" /\ cbpc = "write"))
          /\ (pc = "encoding" /\ video_encoder.pending > 0) =>
                (lock = "free" \/ cbpc = "write")
          /\ pc # "panicked")
    /\ [][ pc' # pc => (pc' = "idle" \/ Rank(pc') > Rank(pc)) ]_vars

\* the callback is sending a chunk while encode has not returned yet
C18_Witness ==
    /\ pc = "encoding"
    /\ lock = "cb" /\ cbpc = "write"
    /\ cbEnc = video_encoder.id

\* ---- C19 ---------------------------------------------------------------
\* C19: when encoder construction fails the binding is what it was before
\* the tick (absent stays absent, a bound encoder stays bound); nothing of
\* the failed attempt is retained, and the retained encoder is never used
\* for a frame of another size.
C19_FailureKeepsBinding ==
    /\ [][ Binding(video_encoder') # Binding(video_encoder) =>
              /\ pc = "construct" /\ cur'.built = "ok"
              /\ Binding(video_encoder') = << cur.seq, cur.size >>
         ]_vars
    /\ [](/\ cur.built = "fail" => video_encoder.id # cur.seq
          /\ (stats.fail > 0 /\ cur.encoded) =>
                (cur.encFor = cur.size /\ video_encoder.size = cur.size))

\* an encoder that stayed bound through a failed construction is used
\* again by the next tick, for a frame of its own size
C19_Witness ==
    /\ prev.built = "fail" /\ cur.seq > prev.seq
    /\ cur.encoded /\ cur.built = "no"
    /\ video_encoder.id > 0 /\ video_encoder.id < prev.seq
    /\ prev.size # cur.size

\* ---- C20 ---------------------------------------------------------------
\* C20: with update_interval zero (the control panel's preset) no "@"
\* frame is ever sent: every text tick performs a capture, whatever the
\* timing of the ticks.
C20_ZeroIntervalNeverLimits ==
    update_interval = from_millis(DefaultLimitMs) =>
        /\ Count("at") = 0
        /\ cur.seq > 0 => (cur.captured /\ ~cur.limited)
        /\ pc \notin {"send_at", "write_at"}

\* a tick processed at the very instant the previous cycle finished
C20_Witness ==
    /\ update_interval = from_millis(DefaultLimitMs)
    /\ prev.encoded /\ cur.seq > prev.seq
    /\ cur.now = prev.end /\ cur.now = cur.lu0
    /\ cur.captured /\ cur.done
\* ---- C21 ---------------------------------------------------------------
\* C21: a run of the toggle callback while the server is running sends
\* Shutdown to the web service and to the websocket service and leaves the
\* panel not running with the button labelled "Start", also when the send
\* to the web service fails.
C21_StopAlwaysStops ==
    [][ (panel'.calls = panel.calls + 1 /\ is_server_running) =>
          /\ panel'.web_sent = panel.web_sent + 1
          /\ panel'.ws_sent = panel.ws_sent + 1
          /\ ~is_server_running'
          /\ but_label' = "Start"
      ]_vars

\* ---- C22 ---------------------------------------------------------------
\* C22: the button is labelled "Stop" exactly when is_server_running is
\* true; a start attempt with a field that does not parse starts neither
\* service and leaves is_server_running false and the label "Start".
C22_LabelTracksRunning ==
    /\ []((but_label = "Stop") <=> is_server_running)
    /\ []((but_label = "Start") <=> ~is_server_running)
    /\ [][ (panel'.calls = panel.calls + 1 /\ ~is_server_running
              /\ ~ParsesOk(inputs)) =>
              /\ ws' = ws /\ web' = web
              /\ sender_gui2ws' = sender_gui2ws
              /\ sender_gui2web' = sender_gui2web
              /\ ~is_server_running' /\ but_label' = "Start"
              /\ panel'.errors = panel.errors + 1
         ]_vars

\* after a start and a stop, a start attempt failed on an unparsable field
C22_Witness ==
    /\ panel.last = "parse_err" /\ panel.calls = 3
    /\ ~ParsesOk(inputs)
    /\ ~is_server_running /\ but_label = "Start"
    /\ panel.ws_sent = 1

\* ---- C23 ---------------------------------------------------------------
\* C23: when the window is hidden while the server is running, the Hide
\* handler's run of the toggle callback takes the stop path, so by the
\* time the process exits Shutdown was sent to both services.
C23_HideStopsServices ==
    exited =>
        /\ ~is_server_running
        /\ panel.last # "borrow_err"
        /\ ws.state = "running" => ws.queued > 0
        /\ web.state = "running" => web.queued > 0
=============================================================================
